---- MODULE Spec2Model ----
(***************************************************************************)
(* FormPilot API (apps/formpilot-api/main.py): the field-value validator   *)
(* validate_mapping with its shape predicates, and the suggest-mappings    *)
(* handler that filters the LLM's candidate mappings through it.           *)
(*                                                                         *)
(* A Python str is a sequence of characters; a character is a one-element  *)
(* TLA+ string, except for two characters outside ASCII that are named:    *)
(*   "SUP2"   U+00B2 SUPERSCRIPT TWO  (str.isdigit() is True, not decimal) *)
(*   "EACUTE" U+00E9 e with acute     (a letter: \w, not in [a-z])         *)
(***************************************************************************)
EXTENDS Integers, Sequences, FiniteSets, TLC

VARIABLES
  vField,    \* validate_mapping called alone: its field argument
  vValue,    \*   its value argument
  vResult,   \*   what the call ended with
  vPc,       \*   "call" before the call, "done" after it
  api_key,   \* os.environ["ANTHROPIC_API_KEY"]
  body,      \* the request of /formpilot/suggest-mappings
  llm,       \* what the Anthropic call of this request gives
  response,  \* the handler's response
  pc,        \* "request" while the request is pending, "done" after it
  effects,   \* the calls the handler made: to the LLM, to validate_mapping
  target,    \* the field of the request of /formpilot/suggest-field
  suggestion,  \* the dict suggest_field returns
  usage_stats,     \* usage_db: the committed row of table usage_stats
  transaction,     \* usage_db: what _conn has updated and not committed
  usage_response,  \* the response of the last /prodway request
  usage_log,       \* the /prodway requests made so far
  validation_rules,    \* the module-level dict VALIDATION_RULES
  length_constraints,  \* the module-level dict LENGTH_CONSTRAINTS
  descriptors,         \* the field descriptors concurrent callers share
  calls                \* the invocations of validate_mapping in progress

varsV == <<vField, vValue, vResult, vPc>>

varsS == <<api_key, body, llm, response, pc, effects>>

varsF == <<target, suggestion>>

varsU == <<usage_stats, transaction, usage_response, usage_log>>

varsC == <<validation_rules, length_constraints, descriptors, calls>>

vars == <<vField, vValue, vResult, vPc, api_key, body, llm, response, pc,
          effects, target, suggestion,
          usage_stats, transaction, usage_response, usage_log,
          validation_rules, length_constraints, descriptors, calls>>

-----------------------------------------------------------------------------
(* JSON values as Python sees them after json.loads / pydantic: a value is *)
(* [t, v] with t its Python type.  A dict is a record over a fixed set of  *)
(* keys in which a missing key holds JAbsent.  A str that the code only    *)
(* compares (semanticType) is a TLA+ string; a str that the code looks     *)
(* into (a value) is a sequence of characters.                             *)

JAbsent == [t |-> "absent", v |-> 0]
JNull == [t |-> "NoneType", v |-> 0]
JStr(s) == [t |-> "str", v |-> s]
JInt(n) == [t |-> "int", v |-> n]
JList(items) == [t |-> "list", v |-> items]
JDict(d) == [t |-> "dict", v |-> d]

\* bool(x) of Python; a missing key read with dict.get() is None.
Truthy(x) ==
  CASE x.t = "str" -> x.v # ""
    [] x.t = "int" -> x.v # 0
    [] x.t = "list" -> Len(x.v) > 0
    [] OTHER -> FALSE

\* hash(x) is defined; a list is unhashable, "x in some_dict" raises TypeError.
Hashable(x) == x.t # "list"

-----------------------------------------------------------------------------
(* Characters and the str methods the validator uses.                      *)

LowerMap ==
  [A |-> "a", B |-> "b", C |-> "c", D |-> "d", E |-> "e", F |-> "f", G |-> "g",
   H |-> "h", I |-> "i", J |-> "j", K |-> "k", L |-> "l", M |-> "m", N |-> "n",
   O |-> "o", P |-> "p", Q |-> "q", R |-> "r", S |-> "s", T |-> "t", U |-> "u",
   V |-> "v", W |-> "w", X |-> "x", Y |-> "y", Z |-> "z"]

AsciiUpper == DOMAIN LowerMap

AsciiLower == {LowerMap[c] : c \in AsciiUpper}

DecimalDigits == {"0", "1", "2", "3", "4", "5", "6", "7", "8", "9"}

\* str.isspace() of one character; also the class \s of re.
IsSpace(c) == c \in {" ", "\n", "\t"}

\* str.isdigit() of one character: the decimal digits and the digits that
\* need special handling, such as the superscript digits.
IsDigitChar(c) == c \in DecimalDigits \/ c = "SUP2"

\* The class \w of re on str patterns: str.isalnum() or "_".
IsWordChar(c) ==
  c \in AsciiLower \/ c \in AsciiUpper \/ IsDigitChar(c) \/ c = "EACUTE" \/ c = "_"

LowerChar(c) == IF c \in AsciiUpper THEN LowerMap[c] ELSE c

\* str.lower(): every character lowered (concatenated with the empty
\* sequence so that the result is a tuple).
Lower(s) == [i \in 1..Len(s) |-> LowerChar(s[i])] \o <<>>

\* str.strip(): without the leading and trailing whitespace.
Strip(s) ==
  IF \A i \in 1..Len(s) : IsSpace(s[i]) THEN <<>>
  ELSE LET first == CHOOSE i \in 1..Len(s) :
                      ~IsSpace(s[i]) /\ \A j \in 1..(i - 1) : IsSpace(s[j])
           last == CHOOSE i \in 1..Len(s) :
                      ~IsSpace(s[i]) /\ \A j \in (i + 1)..Len(s) : IsSpace(s[j])
       IN SubSeq(s, first, last)

\* str.startswith(prefix)
StartsWith(s, prefix) ==
  Len(prefix) <= Len(s) /\ \A j \in 1..Len(prefix) : s[j] = prefix[j]

\* sub in s
Contains(s, sub) ==
  \E i \in 0..(Len(s) - Len(sub)) : \A j \in 1..Len(sub) : s[i + j] = sub[j]

\* str.isdigit(): non-empty and every character a digit.
IsDigitStr(s) == Len(s) > 0 /\ \A i \in 1..Len(s) : IsDigitChar(s[i])

\* str.split(): the maximal runs of non-whitespace characters, in order.
Split(s) ==
  LET starts == {i \in 1..Len(s) : ~IsSpace(s[i]) /\ (i = 1 \/ IsSpace(s[i - 1]))}
      endOf(i) == CHOOSE k \in i..Len(s) :
                    (k = Len(s) \/ IsSpace(s[k + 1])) /\ (\A j \in i..k : ~IsSpace(s[j]))
      nth(n) == CHOOSE i \in starts : Cardinality({j \in starts : j <= i}) = n
  IN [n \in 1..Cardinality(starts) |-> SubSeq(s, nth(n), endOf(nth(n)))]

\* Where "$" of a pattern (no MULTILINE) matches after position q: at the
\* end of the string, and just before a newline that ends the string.
AtEnd(s, q) == q = Len(s) \/ (q = Len(s) - 1 /\ s[Len(s)] = "\n")

-----------------------------------------------------------------------------
(* The literals of the source.                                             *)

HttpScheme == <<"h", "t", "t", "p", ":", "/", "/">>
HttpsScheme == <<"h", "t", "t", "p", "s", ":", "/", "/">>
HttpWord == <<"h", "t", "t", "p">>
LinkedinWord == <<"l", "i", "n", "k", "e", "d", "i", "n">>
LinkedinComSlash == LinkedinWord \o <<".", "c", "o", "m", "/">>
WwwLinkedinComSlash == <<"w", "w", "w", ".">> \o LinkedinComSlash

video_domains ==
  << <<"l", "o", "o", "m", ".", "c", "o", "m">>,
     <<"y", "o", "u", "t", "u", "b", "e", ".", "c", "o", "m">>,
     <<"y", "o", "u", "t", "u", ".", "b", "e">>,
     <<"v", "i", "m", "e", "o", ".", "c", "o", "m">>,
     <<"w", "i", "s", "t", "i", "a", ".", "c", "o", "m">>,
     <<"v", "i", "d", "y", "a", "r", "d", ".", "c", "o", "m">> >>

company_suffixes ==
  << <<"i", "n", "c">>, <<"l", "l", "c">>, <<"l", "t", "d">>, <<"c", "o", "r", "p">>,
     <<"c", "o">>, <<"c", "o", "m", "p", "a", "n", "y">>, <<"a", "i">>, <<"i", "o">> >>

MaxUrlLen == 2000
MaxLinkedinLen == 2000
MaxEmailLen == 320
MinPhoneDigits == 7
MaxPhoneDigits == 15

-----------------------------------------------------------------------------
(* The shape predicates.                                                   *)

\* re.match(r'^[\w.-]+\.[a-z]{2,}(/|$)', v): some p > 1 with v[1..p-1] in
\* [\w.-], v[p] = ".", and some q >= p + 2 with v[p+1..q] in [a-z] that is
\* followed by "/" or by the end.
MatchBareDomain(v) ==
  \E p \in 2..Len(v) :
    /\ v[p] = "."
    /\ \A i \in 1..(p - 1) : IsWordChar(v[i]) \/ v[i] = "." \/ v[i] = "-"
    /\ \E q \in (p + 2)..Len(v) :
         /\ \A i \in (p + 1)..q : v[i] \in AsciiLower
         /\ (AtEnd(v, q) \/ v[q + 1] = "/")

_looks_like_url(value) ==
  IF Len(value) = 0 \/ Len(value) > MaxUrlLen THEN FALSE
  ELSE LET v == Strip(Lower(value)) IN
       IF StartsWith(v, HttpScheme) \/ StartsWith(v, HttpsScheme) THEN TRUE
       ELSE IF MatchBareDomain(v) THEN TRUE
       ELSE FALSE

\* _looks_like_linkedin_url without the length limit of line 72.
looks_like_linkedin_url_NoLimit(value) ==
  IF Len(value) = 0 THEN FALSE
  ELSE LET v == Strip(Lower(value)) IN
       \/ Contains(v, LinkedinWord)
       \/ StartsWith(v, HttpWord)
       \/ (Contains(v, <<"/">>) /\ Contains(v, <<".">>))

_looks_like_linkedin_url(value) ==
  IF Len(value) = 0 \/ Len(value) > MaxLinkedinLen THEN FALSE
  ELSE LET v == Strip(Lower(value)) IN
       IF \/ Contains(v, LinkedinWord)
          \/ StartsWith(v, HttpWord)
          \/ (Contains(v, <<"/">>) /\ Contains(v, <<".">>))
       THEN TRUE
       ELSE IF StartsWith(v, LinkedinComSlash) \/ StartsWith(v, WwwLinkedinComSlash)
       THEN TRUE
       ELSE FALSE

\* _looks_like_video_url that accepts every non-empty value instead of
\* falling back to _looks_like_url.
looks_like_video_url_NoFallback(value) == Len(value) > 0

_looks_like_video_url(value) ==
  IF Len(value) = 0 THEN FALSE
  ELSE LET v == Strip(Lower(value)) IN
       IF \E d \in 1..Len(video_domains) : Contains(v, video_domains[d]) THEN TRUE
       ELSE _looks_like_url(value)

\* re.match(r'^[^\s@]+@[^\s@]+\.[^\s@]+$', s): one "@" at position a > 1,
\* no whitespace, and a "." at some p with a + 1 < p and a character after it.
MatchEmail(s) ==
  \E e \in 1..Len(s) :
    /\ AtEnd(s, e)
    /\ \E a \in 2..e :
         /\ s[a] = "@"
         /\ \A i \in (1..e) \ {a} : ~IsSpace(s[i]) /\ s[i] # "@"
         /\ \E p \in (a + 2)..(e - 1) : s[p] = "."

\* _looks_like_email with ">=" for ">" in the length limit of line 96.
looks_like_email_OffByOne(value) ==
  IF Len(value) = 0 \/ Len(value) >= MaxEmailLen THEN FALSE
  ELSE MatchEmail(Strip(value))

_looks_like_email(value) ==
  IF Len(value) = 0 \/ Len(value) > MaxEmailLen THEN FALSE
  ELSE MatchEmail(Strip(value))

\* re.sub(r'[\s\-\.\(\)\+]', '', value)
StripPhoneFormatting(value) ==
  SelectSeq(value, LAMBDA c : ~(IsSpace(c) \/ c \in {"-", ".", "(", ")", "+"}))

_looks_like_phone(value) ==
  IF Len(value) = 0 THEN FALSE
  ELSE LET digits == StripPhoneFormatting(value) IN
       Len(digits) >= MinPhoneDigits /\ Len(digits) <= MaxPhoneDigits /\ IsDigitStr(digits)

-----------------------------------------------------------------------------
(* The rule tables and validate_mapping.                                   *)

None == "<None>"

\* VALIDATION_RULES with one message for the three plain URL types.
VALIDATION_RULES_OneUrlMessage ==
  [email |-> "must be a valid email address",
   phone |-> "must be a valid phone number",
   website |-> "must be a valid URL",
   linkedinUrl |-> "must be a LinkedIn URL",
   twitterUrl |-> "must be a valid URL",
   videoUrl |-> "must be a video URL (Loom, YouTube, etc.)",
   pitchDeckUrl |-> "must be a valid URL"]

\* VALIDATION_RULES: semantic type -> error message (the validator is
\* RuleValidator below).
VALIDATION_RULES ==
  [email |-> "must be a valid email address",
   phone |-> "must be a valid phone number",
   website |-> "must be a valid URL",
   linkedinUrl |-> "must be a LinkedIn URL",
   twitterUrl |-> "must be a valid Twitter/X URL",
   videoUrl |-> "must be a video URL (Loom, YouTube, etc.)",
   pitchDeckUrl |-> "must be a valid URL"]

\* RuleValidator where website, twitterUrl and pitchDeckUrl are paired
\* with _looks_like_linkedin_url in VALIDATION_RULES.
RuleValidator_LinkedinForAll(semantic_type, value) ==
  CASE semantic_type = "email" -> _looks_like_email(value)
    [] semantic_type = "phone" -> _looks_like_phone(value)
    [] semantic_type = "website" -> _looks_like_linkedin_url(value)
    [] semantic_type = "linkedinUrl" -> _looks_like_linkedin_url(value)
    [] semantic_type = "twitterUrl" -> _looks_like_linkedin_url(value)
    [] semantic_type = "videoUrl" -> _looks_like_video_url(value)
    [] semantic_type = "pitchDeckUrl" -> _looks_like_linkedin_url(value)

RuleValidator(semantic_type, value) ==
  CASE semantic_type = "email" -> _looks_like_email(value)
    [] semantic_type = "phone" -> _looks_like_phone(value)
    [] semantic_type = "website" -> _looks_like_url(value)
    [] semantic_type = "linkedinUrl" -> _looks_like_linkedin_url(value)
    [] semantic_type = "twitterUrl" -> _looks_like_url(value)
    [] semantic_type = "videoUrl" -> _looks_like_video_url(value)
    [] semantic_type = "pitchDeckUrl" -> _looks_like_url(value)

LENGTH_CONSTRAINTS ==
  [shortDescription |-> <<20, 500>>,
   description |-> <<50, 5000>>,
   traction |-> <<20, 2000>>,
   problemStatement |-> <<20, 2000>>,
   solutionStatement |-> <<20, 2000>>,
   whyNow |-> <<20, 1000>>,
   teamDescription |-> <<20, 3000>>,
   uniqueAdvantage |-> <<20, 1000>>,
   investorContext |-> <<50, 3000>>,
   companyName |-> <<1, 200>>,
   contactName |-> <<2, 100>>,
   firstName |-> <<1, 50>>,
   lastName |-> <<1, 50>>,
   city |-> <<1, 100>>,
   state |-> <<1, 100>>,
   country |-> <<1, 100>>,
   zip |-> <<2, 20>>]

person_types == {"contactName", "firstName", "lastName"}

url_types == {"website", "linkedinUrl", "twitterUrl", "videoUrl", "pitchDeckUrl"}

\* What a call of validate_mapping ends with: a returned pair
\* (is_valid, error_msg), or an exception.
Return(is_valid, error_msg) ==
  [kind |-> "return", is_valid |-> is_valid, error_msg |-> error_msg]

Raise(exception) == [kind |-> "raise", is_valid |-> FALSE, error_msg |-> exception]

TooShort(min_len) == "too short (min " \o ToString(min_len) \o " chars)"

TooLong(max_len) == "too long (max " \o ToString(max_len) \o " chars)"

\* Lines 157-161 reading the dict rules: the shape rule of the type, None
\* when it passes.
RuleCheckIn(rules, semantic_type, value) ==
  IF semantic_type \in DOMAIN rules /\ ~RuleValidator(semantic_type, value)
  THEN rules[semantic_type]
  ELSE None

\* Lines 157-161 with VALIDATION_RULES as the module defines it.
RuleCheck(semantic_type, value) == RuleCheckIn(VALIDATION_RULES, semantic_type, value)

\* LengthCheck whose comparisons are "<=" and ">=": a value of exactly
\* the minimum or the maximum length fails.
LengthCheck_OffByOne(semantic_type, value) ==
  IF semantic_type \in DOMAIN LENGTH_CONSTRAINTS
  THEN LET min_len == LENGTH_CONSTRAINTS[semantic_type][1]
           max_len == LENGTH_CONSTRAINTS[semantic_type][2]
       IN IF Len(value) <= min_len THEN TooShort(min_len)
          ELSE IF Len(value) >= max_len THEN TooLong(max_len)
          ELSE None
  ELSE None

\* Lines 163-169 reading the dict lengths.
LengthCheckIn(lengths, semantic_type, value) ==
  IF semantic_type \in DOMAIN lengths
  THEN LET min_len == lengths[semantic_type][1]
           max_len == lengths[semantic_type][2]
       IN IF Len(value) < min_len THEN TooShort(min_len)
          ELSE IF Len(value) > max_len THEN TooLong(max_len)
          ELSE None
  ELSE None

\* Lines 163-169 with LENGTH_CONSTRAINTS as the module defines it.
LengthCheck(semantic_type, value) == LengthCheckIn(LENGTH_CONSTRAINTS, semantic_type, value)

\* PersonCheck that looks at the first word, words[0], not the last.
PersonCheck_FirstWord(semantic_type, value) ==
  IF semantic_type \in person_types
  THEN LET words == Split(Lower(value)) IN
       IF Len(words) > 0 /\ (\E k \in 1..Len(company_suffixes) :
                               words[1] = company_suffixes[k])
       THEN "appears to be a company name, not a person name"
       ELSE None
  ELSE None

\* Lines 171-177.
PersonCheck(semantic_type, value) ==
  IF semantic_type \in person_types
  THEN LET words == Split(Lower(value)) IN
       IF Len(words) > 0 /\ (\E k \in 1..Len(company_suffixes) :
                               words[Len(words)] = company_suffixes[k])
       THEN "appears to be a company name, not a person name"
       ELSE None
  ELSE None

\* UrlTextCheck without the "'linkedin' not in value.lower()" conjunct.
UrlTextCheck_NoLinkedinExemption(semantic_type, value) ==
  IF semantic_type \in url_types /\ ~_looks_like_url(value)
  THEN "must be a URL, not plain text"
  ELSE None

\* UrlTextCheck applied to the website type alone.
UrlTextCheck_WebsiteOnly(semantic_type, value) ==
  IF semantic_type = "website"
  THEN IF ~_looks_like_url(value) /\ ~Contains(Lower(value), LinkedinWord)
       THEN "must be a URL, not plain text"
       ELSE None
  ELSE None

\* Lines 179-184.
UrlTextCheck(semantic_type, value) ==
  IF semantic_type \in url_types
  THEN IF ~_looks_like_url(value) /\ ~Contains(Lower(value), LinkedinWord)
       THEN "must be a URL, not plain text"
       ELSE None
  ELSE None

\* RunChecks with the person-name check moved before the length check.
RunChecks_PersonFirst(semantic_type, value) ==
  LET rule_error == RuleCheck(semantic_type, value)
      length_error == LengthCheck(semantic_type, value)
      person_error == PersonCheck(semantic_type, value)
      url_error == UrlTextCheck(semantic_type, value)
  IN IF rule_error # None THEN Return(FALSE, rule_error)
     ELSE IF person_error # None THEN Return(FALSE, person_error)
     ELSE IF length_error # None THEN Return(FALSE, length_error)
     ELSE IF url_error # None THEN Return(FALSE, url_error)
     ELSE Return(TRUE, None)

\* The checks of lines 157-186 on the stripped value, the first failure
\* returned.
RunChecks(semantic_type, value) ==
  LET rule_error == RuleCheck(semantic_type, value)
      length_error == LengthCheck(semantic_type, value)
      person_error == PersonCheck(semantic_type, value)
      url_error == UrlTextCheck(semantic_type, value)
  IN IF rule_error # None THEN Return(FALSE, rule_error)
     ELSE IF length_error # None THEN Return(FALSE, length_error)
     ELSE IF person_error # None THEN Return(FALSE, person_error)
     ELSE IF url_error # None THEN Return(FALSE, url_error)
     ELSE Return(TRUE, None)

\* validate_mapping that accepts whatever is proposed for a field that
\* already has a value: "if field.get('value'): return True, None".
validate_mapping_SkipsPrefilled(field, value) ==
  IF field.value.t = "str" /\ Len(field.value.v) > 0 THEN Return(TRUE, None)
  ELSE IF Len(value) = 0 \/ Len(Strip(value)) = 0 THEN Return(TRUE, None)
  ELSE LET semantic_type == IF field.semanticType = JAbsent THEN JNull
                            ELSE field.semanticType
       IN IF ~Truthy(semantic_type) THEN Return(TRUE, None)
          ELSE IF ~Hashable(semantic_type) THEN Raise("TypeError")
          ELSE IF semantic_type.t # "str" THEN Return(TRUE, None)
          ELSE RunChecks(semantic_type.v, Strip(value))

\* validate_mapping whose first test is "not value" alone, without
\* "not value.strip()".
validate_mapping_NoBlankTest(field, value) ==
  IF Len(value) = 0 THEN Return(TRUE, None)
  ELSE LET semantic_type == IF field.semanticType = JAbsent THEN JNull
                            ELSE field.semanticType
       IN IF ~Truthy(semantic_type) THEN Return(TRUE, None)
          ELSE IF ~Hashable(semantic_type) THEN Raise("TypeError")
          ELSE IF semantic_type.t # "str" THEN Return(TRUE, None)
          ELSE RunChecks(semantic_type.v, Strip(value))

validate_mapping(field, value) ==
  IF Len(value) = 0 \/ Len(Strip(value)) = 0 THEN Return(TRUE, None)
  ELSE LET semantic_type == IF field.semanticType = JAbsent THEN JNull
                            ELSE field.semanticType
       IN IF ~Truthy(semantic_type) THEN Return(TRUE, None)
          ELSE IF ~Hashable(semantic_type) THEN Raise("TypeError")
          ELSE IF semantic_type.t # "str" THEN Return(TRUE, None)
          ELSE RunChecks(semantic_type.v, Strip(value))

-----------------------------------------------------------------------------
(* The inputs of the validator: field descriptors and values.              *)

\* A field descriptor (a dict of the request's "fields" list).
Field(semanticType, label, value) ==
  [semanticType |-> semanticType, label |-> label, value |-> value]

\* The semantic types of the two rule tables, one that is in neither, the
\* empty string, and what else JSON can put under the key.
SemanticTypes ==
  {JStr(t) : t \in DOMAIN VALIDATION_RULES \cup DOMAIN LENGTH_CONSTRAINTS \cup {"custom", ""}}
    \cup {JAbsent, JNull, JInt(0), JInt(7), JList(<<>>), JList(<<JStr("email")>>)}

Fields == {Field(st, JAbsent, JAbsent) : st \in SemanticTypes}

MaxParts == 2

Vocab ==
  {<<" ">>,
   <<"a">>,
   <<"@">>,
   <<".">>,
   <<"/">>,
   <<"-">>,
   <<"7">>,
   <<"SUP2">>,
   <<"EACUTE">>,
   <<"\n">>,
   <<"h", "t", "t", "p">>,
   <<"H", "t", "t", "p", "s", ":", "/", "/">>,
   <<"L", "i", "n", "k", "e", "d", "I", "n">>,
   <<"y", "o", "u", "t", "u", ".", "b", "e">>,
   <<"a", ".", "c", "o">>,
   <<"b", "@", "c", ".", "i", "o">>,
   <<"I", "n", "c">>,
   <<"5", "5", "5", "1", "2", "3", "4">>,
   <<"?">>,
   <<"_">>}

\* The concatenations of at most n words of Vocab.
Concats(n) ==
  LET cat[k \in 0..n] ==
        IF k = 0 THEN {<<>>} ELSE {s \o w : s \in cat[k - 1], w \in Vocab \cup {<<>>}}
  IN cat[n]

Samples ==
  {<<"j", "a", "n", "e", "@", "a", "c", "m", "e", ".", "c", "o", "m">>,
   <<"n", "o", "t", "-", "a", "n", "-", "e", "m", "a", "i", "l">>,
   <<"J", "o", "h", "n", " ", "S", "m", "i", "t", "h">>,
   <<"l", "i", "n", "k", "e", "d", "i", "n", ".", "c", "o", "m", "/", "i", "n", "/", "j", "o", "h", "n", "s", "m", "i", "t", "h">>,
   <<"A", "c", "m", "e", " ", "I", "n", "c">>,
   <<"H", "i">>,
   <<"s", "e", "e", " ", "y", "o", "u", "t", "u", "b", "e", ".", "c", "o", "m", " ", "n", "o", "w">>,
   <<"+", "1", " ", "(", "5", "5", "5", ")", " ", "1", "2", "3", "-", "4", "5", "6", "7">>,
   <<"h", "t", "t", "p", "s", ":", "/", "/", "x", ".", "i", "o", "/", "d", "e", "c", "k">>,
   <<"V", "a", "n", " ", "C", "o">>,
   <<"a", "@", "b", ".", "c">>,
   <<"w", "w", "w", ".", "a", "c", "m", "e", ".", "i", "o", "/", "a", " ", "b">>,
   <<"A", "i">>,
   <<"C", "o">>,
   <<"h", "t", "t", "p", " ", "i", "s">>}

\* The lengths at which some check of the validator changes its answer:
\* each minimum and the length below it, each maximum and the length above.
MinLimits == {MinPhoneDigits} \cup {LENGTH_CONSTRAINTS[t][1] : t \in DOMAIN LENGTH_CONSTRAINTS}

MaxLimits ==
  {MaxUrlLen, MaxLinkedinLen, MaxEmailLen, MaxPhoneDigits}
    \cup {LENGTH_CONSTRAINTS[t][2] : t \in DOMAIN LENGTH_CONSTRAINTS}

BoundaryLens ==
  MinLimits \cup {n - 1 : n \in MinLimits} \cup MaxLimits \cup {n + 1 : n \in MaxLimits}

\* <<head, tail>> of a long value.
Frames ==
  {<<<<>>, <<>>>>,
   <<<<"h", "t", "t", "p", ":", "/", "/">>, <<>>>>,
   <<<<"a", "@", "b", ".">>, <<>>>>,
   <<<<"y", "o", "u", "t", "u", ".", "b", "e", " ", "l", "i", "n", "k", "e", "d", "i", "n">>, <<>>>>,
   <<<<>>, <<" ", "I", "n", "c">>>>,
   <<<<" ">>, <<" ">>>>}

PadChars == {"a", "7"}

\* head, then the pad character repeated, then tail: n characters in all.
Fill(head, c, tail, n) == head \o [i \in 1..(n - Len(head) - Len(tail)) |-> c] \o tail

BoundaryValues ==
  {Fill(x[1][1], x[2], x[1][2], x[3]) : x \in
     {y \in Frames \X PadChars \X BoundaryLens : y[3] >= Len(y[1][1]) + Len(y[1][2])}}

Values == Concats(MaxParts) \cup Samples \cup BoundaryValues

-----------------------------------------------------------------------------
(* POST /formpilot/suggest-mappings.                                       *)

Digits == <<"0", "1", "2", "3", "4", "5", "6", "7", "8", "9">>

DigitValue(c) == (CHOOSE k \in 1..10 : Digits[k] = c) - 1

\* int(s) of a str: optional whitespace around an optional sign and
\* decimal digits; anything else is a ValueError.
IntOfStr(s) ==
  LET t == Strip(s)
      signed == Len(t) > 0 /\ t[1] \in {"+", "-"}
      d == IF signed THEN SubSeq(t, 2, Len(t)) ELSE t
      n == Len(d)
      sum[i \in 0..n] == IF i = 0 THEN 0 ELSE 10 * sum[i - 1] + DigitValue(d[i])
  IN IF n > 0 /\ \A i \in 1..n : d[i] \in DecimalDigits
     THEN [ok |-> TRUE, v |-> IF signed /\ t[1] = "-" THEN 0 - sum[n] ELSE sum[n]]
     ELSE [ok |-> FALSE, v |-> 0]

\* int(x) of line 314: ok, or not ok when it raises (ValueError for a str
\* that is no number, TypeError for None and for a list).
PyInt(x) ==
  CASE x.t = "int" -> [ok |-> TRUE, v |-> x.v]
    [] x.t = "str" -> IntOfStr(x.v)
    [] OTHER -> [ok |-> FALSE, v |-> 0]

\* The decimal text of n >= 0.
DecimalText(n) ==
  LET text[k \in 0..n] == IF k < 10 THEN <<Digits[k + 1]>>
                         ELSE text[k \div 10] \o <<Digits[(k % 10) + 1]>>
  IN text[n]

\* str(m.get("value", "")) of line 315.
PyStr(x) ==
  CASE x.t = "absent" -> <<>>
    [] x.t = "str" -> x.v
    [] x.t = "NoneType" -> <<"N", "o", "n", "e">>
    [] x.t = "int" -> IF x.v < 0 THEN <<"-">> \o DecimalText(0 - x.v) ELSE DecimalText(x.v)

\* bool(field) of a dict: it has a key.
NonEmptyDict(field) == \E k \in DOMAIN field : field[k] # JAbsent

Response(status, mappings) == [status |-> status, mappings |-> mappings]

HTTP_OK == 200

HTTP_BAD_GATEWAY == 502

\* NormalizeAndValidate without the "if not is_valid: continue" of lines
\* 323-326.
NormalizeAndValidate_KeepRejected(fields_data, mappings) ==
  LET step[k \in 0..Len(mappings)] ==
        IF k = 0 THEN [raised |-> FALSE, out |-> <<>>, validated |-> 0]
        ELSE LET prev == step[k - 1]
                 m == mappings[k]
             IN IF prev.raised THEN prev
                ELSE IF m.t # "dict" THEN prev
                ELSE IF m.v.index = JAbsent THEN prev
                ELSE LET idx == PyInt(m.v.index)
                         value == Strip(PyStr(m.v.value))
                     IN IF ~idx.ok THEN [raised |-> TRUE, out |-> <<>>, validated |-> prev.validated]
                        ELSE IF Len(value) = 0 THEN prev
                        ELSE IF idx.v \notin 0..(Len(fields_data) - 1) THEN prev
                        ELSE IF ~NonEmptyDict(fields_data[idx.v + 1]) THEN prev
                        ELSE LET result == validate_mapping(fields_data[idx.v + 1], value)
                             IN IF result.kind = "raise"
                                THEN [raised |-> TRUE, out |-> <<>>,
                                      validated |-> prev.validated + 1]
                                ELSE [raised |-> FALSE,
                                      out |-> Append(prev.out, [index |-> idx.v, value |-> value]),
                                      validated |-> prev.validated + 1]
  IN step[Len(mappings)]

\* NormalizeAndValidate where a rejection by validate_mapping ends the
\* loop like an exception, in place of the "continue" of line 326.
NormalizeAndValidate_RejectionRaises(fields_data, mappings) ==
  LET step[k \in 0..Len(mappings)] ==
        IF k = 0 THEN [raised |-> FALSE, out |-> <<>>, validated |-> 0]
        ELSE LET prev == step[k - 1]
                 m == mappings[k]
             IN IF prev.raised THEN prev
                ELSE IF m.t # "dict" THEN prev
                ELSE IF m.v.index = JAbsent THEN prev
                ELSE LET idx == PyInt(m.v.index)
                         value == Strip(PyStr(m.v.value))
                     IN IF ~idx.ok THEN [raised |-> TRUE, out |-> <<>>, validated |-> prev.validated]
                        ELSE IF Len(value) = 0 THEN prev
                        ELSE IF idx.v \notin 0..(Len(fields_data) - 1) THEN prev
                        ELSE IF ~NonEmptyDict(fields_data[idx.v + 1]) THEN prev
                        ELSE LET result == validate_mapping(fields_data[idx.v + 1], value)
                             IN IF result.kind = "raise"
                                THEN [raised |-> TRUE, out |-> <<>>,
                                      validated |-> prev.validated + 1]
                                ELSE IF ~result.is_valid
                                THEN [raised |-> TRUE, out |-> <<>>,
                                      validated |-> prev.validated + 1]
                                ELSE [raised |-> FALSE,
                                      out |-> Append(prev.out, [index |-> idx.v, value |-> value]),
                                      validated |-> prev.validated + 1]
  IN step[Len(mappings)]

\* NormalizeAndValidate that keeps one mapping per index, the first, and
\* skips a candidate whose index is already in out.
NormalizeAndValidate_FirstPerIndex(fields_data, mappings) ==
  LET step[k \in 0..Len(mappings)] ==
        IF k = 0 THEN [raised |-> FALSE, out |-> <<>>, validated |-> 0]
        ELSE LET prev == step[k - 1]
                 m == mappings[k]
             IN IF prev.raised THEN prev
                ELSE IF m.t # "dict" THEN prev
                ELSE IF m.v.index = JAbsent THEN prev
                ELSE LET idx == PyInt(m.v.index)
                         value == Strip(PyStr(m.v.value))
                     IN IF ~idx.ok THEN [raised |-> TRUE, out |-> <<>>, validated |-> prev.validated]
                        ELSE IF Len(value) = 0 THEN prev
                        ELSE IF idx.v \notin 0..(Len(fields_data) - 1) THEN prev
                        ELSE IF ~NonEmptyDict(fields_data[idx.v + 1]) THEN prev
                        ELSE LET result == validate_mapping(fields_data[idx.v + 1], value)
                             IN IF result.kind = "raise"
                                THEN [raised |-> TRUE, out |-> <<>>,
                                      validated |-> prev.validated + 1]
                                ELSE IF ~result.is_valid
                                THEN [prev EXCEPT !.validated = @ + 1]
                                ELSE IF \E j \in 1..Len(prev.out) : prev.out[j].index = idx.v
                                THEN [prev EXCEPT !.validated = @ + 1]
                                ELSE [raised |-> FALSE,
                                      out |-> Append(prev.out, [index |-> idx.v, value |-> value]),
                                      validated |-> prev.validated + 1]
  IN step[Len(mappings)]

\* Lines 310-327: the loop over the LLM's array.  step[k] is the state
\* after k elements: the list out, or raised when an element raised.
NormalizeAndValidate(fields_data, mappings) ==
  LET step[k \in 0..Len(mappings)] ==
        IF k = 0 THEN [raised |-> FALSE, out |-> <<>>, validated |-> 0]
        ELSE LET prev == step[k - 1]
                 m == mappings[k]
             IN IF prev.raised THEN prev
                ELSE IF m.t # "dict" THEN prev
                ELSE IF m.v.index = JAbsent THEN prev
                ELSE LET idx == PyInt(m.v.index)
                         value == Strip(PyStr(m.v.value))
                     IN IF ~idx.ok THEN [raised |-> TRUE, out |-> <<>>, validated |-> prev.validated]
                        ELSE IF Len(value) = 0 THEN prev
                        ELSE IF idx.v \notin 0..(Len(fields_data) - 1) THEN prev
                        ELSE IF ~NonEmptyDict(fields_data[idx.v + 1]) THEN prev
                        ELSE LET result == validate_mapping(fields_data[idx.v + 1], value)
                             IN IF result.kind = "raise"
                                THEN [raised |-> TRUE, out |-> <<>>,
                                      validated |-> prev.validated + 1]
                                ELSE IF ~result.is_valid
                                THEN [prev EXCEPT !.validated = @ + 1]
                                ELSE [raised |-> FALSE,
                                      out |-> Append(prev.out, [index |-> idx.v, value |-> value]),
                                      validated |-> prev.validated + 1]
  IN step[Len(mappings)]

\* suggest_mappings whose "except json.JSONDecodeError" clause is missing:
\* a reply that is no JSON ends in the "except Exception" clause.
suggest_mappings_JsonErrorIs502(key, request, reply) ==
  IF Len(Strip(key)) = 0 THEN Response(HTTP_OK, <<>>)
  ELSE IF reply.kind = "error" THEN Response(HTTP_BAD_GATEWAY, <<>>)
  ELSE IF reply.kind = "invalid" THEN Response(HTTP_BAD_GATEWAY, <<>>)
  ELSE LET mappings == IF reply.value.t = "list" THEN reply.value.v ELSE <<>>
           loop == NormalizeAndValidate(request.fields, mappings)
       IN IF loop.raised THEN Response(HTTP_BAD_GATEWAY, <<>>)
          ELSE Response(HTTP_OK, loop.out)

\* The handler, lines 268-336.  reply is what the Anthropic call and
\* json.loads of the extracted text give: the call failed ("error"), the
\* text is no JSON ("invalid"), or the parsed JSON value ("json").
suggest_mappings(key, request, reply) ==
  IF Len(Strip(key)) = 0 THEN Response(HTTP_OK, <<>>)
  ELSE IF reply.kind = "error" THEN Response(HTTP_BAD_GATEWAY, <<>>)
  ELSE IF reply.kind = "invalid" THEN Response(HTTP_OK, <<>>)
  ELSE LET mappings == IF reply.value.t = "list" THEN reply.value.v ELSE <<>>
           loop == NormalizeAndValidate(request.fields, mappings)
       IN IF loop.raised THEN Response(HTTP_BAD_GATEWAY, <<>>)
          ELSE Response(HTTP_OK, loop.out)

\* suggest_mappings that builds the client and sends the prompt before it
\* looks at the key.
suggest_mappings_calls_BeforeKeyTest(key, request, reply) ==
  IF reply.kind \in {"none", "error", "invalid"}
  THEN [llm_calls |-> 1, validations |-> 0]
  ELSE LET mappings == IF reply.value.t = "list" THEN reply.value.v ELSE <<>>
           loop == NormalizeAndValidate(request.fields, mappings)
       IN [llm_calls |-> 1, validations |-> loop.validated]

\* What the handler called on its way: client.messages.create (line 285,
\* after the return of line 272-276) and validate_mapping (line 321, once
\* per candidate that reaches it).
suggest_mappings_calls(key, request, reply) ==
  IF Len(Strip(key)) = 0 THEN [llm_calls |-> 0, validations |-> 0]
  ELSE IF reply.kind \in {"error", "invalid"}
  THEN [llm_calls |-> 1, validations |-> 0]
  ELSE LET mappings == IF reply.value.t = "list" THEN reply.value.v ELSE <<>>
           loop == NormalizeAndValidate(request.fields, mappings)
       IN [llm_calls |-> 1, validations |-> loop.validated]

-----------------------------------------------------------------------------
(* The requests and the LLM's replies.                                     *)


MaxCands == 2

\* Sequences over S of length at most n.
SeqUpTo(S, n) == UNION {[1..k -> S] : k \in 0..n}

Jane == <<"J", "a", "n", "e">>

JaneAtAcme == <<"j", "a", "n", "e", "@", "a", "c", "m", "e", ".", "c", "o", "m">>

AcmeInc == <<"A", "c", "m", "e", " ", "I", "n", "c">>

\* An email field, a name field that is already filled in, a dict with no
\* key, and a field whose semanticType is a list.
RequestFields ==
  {Field(JStr("email"), JAbsent, JAbsent),
   Field(JStr("contactName"), JAbsent, JStr(Jane)),
   Field(JAbsent, JAbsent, JAbsent),
   Field(JList(<<JStr("email")>>), JAbsent, JAbsent)}

CandidateIndexes == {JInt(0), JInt(1), JStr(<<"1">>), JStr(<<"x">>)}

\* The positions the candidates name.
NamedPositions == {PyInt(i).v : i \in {j \in CandidateIndexes : PyInt(j).ok}}

\* The field lists: every list that has no more positions than the
\* candidates name, so that each named position is inside some lists and
\* outside others; a descriptor no candidate names is never looked at.
Requests == {[fields |-> f] : f \in SeqUpTo(RequestFields, Cardinality(NamedPositions))}

CandidateValues == {JStr(JaneAtAcme), JStr(<<" ">> \o Jane \o <<" ">>), JStr(AcmeInc), JAbsent}

\* The elements of the LLM's array: {index, value} objects, an object
\* without index, and an element that is no object.
Candidates ==
  {JDict([index |-> i, value |-> v]) : i \in CandidateIndexes, v \in CandidateValues}
    \cup {JDict([index |-> JAbsent, value |-> JStr(Jane)]), JInt(7)}

Replies ==
  {[kind |-> "json", value |-> JList(c)] : c \in SeqUpTo(Candidates, MaxCands)}
    \cup {[kind |-> "json", value |-> JInt(7)],
          [kind |-> "invalid", value |-> JNull],
          [kind |-> "error", value |-> JNull]}

ApiKeys == {<<>>, <<" ">>, <<"s", "k">>}

-----------------------------------------------------------------------------
(* The specifications: one request to the service, and the validator       *)
(* called alone on one input.                                              *)

NoResult == [kind |-> "none", is_valid |-> FALSE, error_msg |-> None]

NoResponse == Response(0, <<>>)

IdleV ==
  /\ vField = Field(JAbsent, JAbsent, JAbsent)
  /\ vValue = <<>>
  /\ vResult = NoResult
  /\ vPc = "idle"

\* No call made yet.
NoEffects == [llm_calls |-> 0, validations |-> 0]

NoSuggestion == [value |-> JAbsent, reasoning |-> JAbsent]

\* usage_db (usage_db.py): the counters forms_filled and sows_sent.
Counters(forms_filled, sows_sent) ==
  [forms_filled |-> forms_filled, sows_sent |-> sows_sent]

\* The row as lines 20-31 create it, nothing uncommitted, no request made.
NoRequest == [op |-> "none", count |-> 0, consent |-> FALSE, before |-> Counters(0, 0)]

NoUsageLog == [made |-> 0, fills |-> 0, sows |-> 0, last |-> NoRequest]

IdleU ==
  /\ usage_stats = Counters(0, 0)
  /\ transaction = Counters(0, 0)
  /\ usage_response = [op |-> "none"]
  /\ usage_log = NoUsageLog

IdleF ==
  /\ target = Field(JAbsent, JAbsent, JAbsent)
  /\ suggestion = NoSuggestion

IdleS ==
  /\ api_key = <<>>
  /\ body = [fields |-> <<>>]
  /\ llm = [kind |-> "error", value |-> JNull]
  /\ response = NoResponse
  /\ pc = "idle"
  /\ effects = NoEffects

\* The module-level tables as lines 111-140 build them; no concurrent
\* invocation.
IdleC ==
  /\ validation_rules = VALIDATION_RULES
  /\ length_constraints = LENGTH_CONSTRAINTS
  /\ descriptors = <<>>
  /\ calls = <<>>

\* Without a key the handler returns at line 272 before it calls the LLM:
\* there is no reply.
NoReply == [kind |-> "none", value |-> JNull]

Init ==
  /\ api_key \in ApiKeys
  /\ body \in Requests
  /\ llm \in IF Len(Strip(api_key)) = 0 THEN {NoReply} ELSE Replies
  /\ response = NoResponse
  /\ pc = "request"
  /\ effects = NoEffects
  /\ IdleF
  /\ IdleU
  /\ IdleV
  /\ IdleC

SuggestMappings ==
  /\ pc = "request"
  /\ response' = suggest_mappings(api_key, body, llm)
  /\ effects' = suggest_mappings_calls(api_key, body, llm)
  /\ pc' = "done"
  /\ UNCHANGED <<api_key, body, llm>>
  /\ UNCHANGED varsV
  /\ UNCHANGED varsC
  /\ UNCHANGED varsF
  /\ UNCHANGED varsU

Next == SuggestMappings

Spec == Init /\ [][Next]_vars

InitV ==
  /\ vField \in Fields
  /\ vValue \in Values
  /\ vResult = NoResult
  /\ vPc = "call"
  /\ IdleS
  /\ IdleF
  /\ IdleU
  /\ IdleC

CallValidate ==
  /\ vPc = "call"
  /\ vResult' = validate_mapping(vField, vValue)
  /\ vPc' = "done"
  /\ UNCHANGED <<vField, vValue>>
  /\ UNCHANGED varsS
  /\ UNCHANGED varsC
  /\ UNCHANGED varsF
  /\ UNCHANGED varsU

NextV == CallValidate

SpecValidate == InitV /\ [][NextV]_vars

\* The validator called on descriptors that differ in what they carry
\* besides semanticType: a label or none, no current value, an empty one
\* or a name.
AttributeFields ==
  {Field(st, label, value) : st \in SemanticTypes,
                             label \in {JAbsent, JStr(<<"E", "m", "a", "i", "l">>)},
                             value \in {JAbsent, JStr(<<>>), JStr(Jane)}}

AttributeValues == Samples \cup {<<>>, <<" ">>}

InitA ==
  /\ vField \in AttributeFields
  /\ vValue \in AttributeValues
  /\ vResult = NoResult
  /\ vPc = "call"
  /\ IdleS
  /\ IdleF
  /\ IdleU
  /\ IdleC

SpecAttributes == InitA /\ [][NextV]_vars

-----------------------------------------------------------------------------
(* /formpilot/suggest-field, and the service answering one request of      *)
(* either kind.                                                            *)

\* "if value:" (line 410) for a value of the LLM's JSON, whose str is a
\* sequence of characters.
ValueTruthy(x) ==
  CASE x.t = "str" -> Len(x.v) > 0
    [] x.t = "int" -> x.v # 0
    [] x.t = "list" -> Len(x.v) > 0
    [] OTHER -> FALSE

\* The dict suggest_field returns.
Suggestion(value, reasoning) == [value |-> value, reasoning |-> reasoning]

\* dict.get(key, default) on a key whose entry is x.
DictGet(x, default) == IF x = JAbsent THEN default ELSE x

\* suggest_field that returns the LLM's value whatever the validator says:
\* lines 412-413 are missing.
suggest_field_KeepsRejected(key, field, reply) ==
  IF Len(Strip(key)) = 0 THEN Suggestion(JNull, JStr("API key not configured"))
  ELSE IF reply.kind = "error" THEN Suggestion(JNull, JStr("AI temporarily unavailable"))
  ELSE IF reply.kind = "invalid" THEN Suggestion(JNull, JStr("Could not parse AI response"))
  ELSE IF reply.value.t # "dict" THEN Suggestion(JNull, JStr("AI temporarily unavailable"))
  ELSE LET value == DictGet(reply.value.v.value, JNull)
           reasoning == DictGet(reply.value.v.reasoning, JStr(""))
       IN IF ValueTruthy(value)
          THEN LET result == validate_mapping(field, PyStr(value))
               IN IF result.kind = "raise"
                  THEN Suggestion(JNull, JStr("AI temporarily unavailable"))
                  ELSE Suggestion(value, reasoning)
          ELSE Suggestion(value, reasoning)

\* The handler, lines 340-425, for a request without nearby fields.  reply
\* is what the Anthropic call and json.loads give, as for suggest_mappings.
\* A parsed value that is no dict has no get: AttributeError, caught by
\* "except Exception" (line 423) as the failed call and a raising
\* validator are.
suggest_field(key, field, reply) ==
  IF Len(Strip(key)) = 0 THEN Suggestion(JNull, JStr("API key not configured"))
  ELSE IF reply.kind = "error" THEN Suggestion(JNull, JStr("AI temporarily unavailable"))
  ELSE IF reply.kind = "invalid" THEN Suggestion(JNull, JStr("Could not parse AI response"))
  ELSE IF reply.value.t # "dict" THEN Suggestion(JNull, JStr("AI temporarily unavailable"))
  ELSE LET value == DictGet(reply.value.v.value, JNull)
           reasoning == DictGet(reply.value.v.reasoning, JStr(""))
       IN IF ValueTruthy(value)
          THEN LET result == validate_mapping(field, PyStr(value))
               IN IF result.kind = "raise"
                  THEN Suggestion(JNull, JStr("AI temporarily unavailable"))
                  ELSE IF ~result.is_valid
                  THEN Suggestion(JNull, JStr(result.error_msg))
                  ELSE Suggestion(value, reasoning)
          ELSE Suggestion(value, reasoning)

\* What suggest_field called on its way: client.messages.create (line 399)
\* and validate_mapping (line 411).
suggest_field_calls(key, field, reply) ==
  IF Len(Strip(key)) = 0 THEN [llm_calls |-> 0, validations |-> 0]
  ELSE IF reply.kind \in {"error", "invalid"} THEN [llm_calls |-> 1, validations |-> 0]
  ELSE IF reply.value.t # "dict" THEN [llm_calls |-> 1, validations |-> 0]
  ELSE [llm_calls |-> 1,
        validations |-> IF ValueTruthy(DictGet(reply.value.v.value, JNull)) THEN 1 ELSE 0]

LinkedinUrl ==
  <<"l", "i", "n", "k", "e", "d", "i", "n", ".", "c", "o", "m", "/", "i", "n", "/", "j">>

\* The targets: the descriptors of the mappings requests, a LinkedIn field
\* and a company-name field.
FieldTargets ==
  RequestFields \cup {Field(JStr("linkedinUrl"), JAbsent, JAbsent),
                      Field(JStr("companyName"), JStr(<<"C", "o">>), JAbsent)}

ProposedValues ==
  {JAbsent, JNull, JStr(<<>>), JStr(<<" ">>), JStr(JaneAtAcme),
   JStr(<<" ">> \o Jane \o <<" ">>), JStr(AcmeInc), JStr(LinkedinUrl), JInt(0), JInt(7)}

\* The objects the LLM answers with, with and without a reasoning (a str
\* the handler only passes on), and the answers that are no object, no
\* JSON or no answer.
FieldReplies ==
  {[kind |-> "json", value |-> JDict([value |-> v, reasoning |-> r])] :
     v \in ProposedValues, r \in {JAbsent, JStr("why")}}
    \cup {[kind |-> "json", value |-> JList(<<JStr(Jane)>>)],
          [kind |-> "invalid", value |-> JNull],
          [kind |-> "error", value |-> JNull]}

\* One request, to /formpilot/suggest-mappings or to /formpilot/suggest-field.
InitService ==
  /\ api_key \in ApiKeys
  /\ \/ /\ pc = "request"
        /\ body \in Requests
        /\ llm \in IF Len(Strip(api_key)) = 0 THEN {NoReply} ELSE Replies
        /\ target = Field(JAbsent, JAbsent, JAbsent)
     \/ /\ pc = "field"
        /\ target \in FieldTargets
        /\ llm \in IF Len(Strip(api_key)) = 0 THEN {NoReply} ELSE FieldReplies
        /\ body = [fields |-> <<>>]
  /\ response = NoResponse
  /\ suggestion = NoSuggestion
  /\ effects = NoEffects
  /\ IdleV
  /\ IdleC
  /\ IdleU

SuggestField ==
  /\ pc = "field"
  /\ suggestion' = suggest_field(api_key, target, llm)
  /\ effects' = suggest_field_calls(api_key, target, llm)
  /\ pc' = "done"
  /\ UNCHANGED <<api_key, body, llm, response, target>>
  /\ UNCHANGED varsV
  /\ UNCHANGED varsC
  /\ UNCHANGED varsU

NextService == SuggestMappings \/ SuggestField

SpecService == InitService /\ [][NextService]_vars

-----------------------------------------------------------------------------
(* /prodway/record-fill, /prodway/record-sow and /prodway/stats over       *)
(* usage_db.  usage_db keeps one connection _conn for the process; an      *)
(* UPDATE opens a transaction on it, which _cursor commits after the with  *)
(* block (line 41).  The statement or the commit can raise                 *)
(* (sqlite3.OperationalError "database is locked" when another connection  *)
(* holds the file); _cursor then closes the cursor and rolls nothing back, *)
(* so what the UPDATE wrote stays in the open transaction of _conn until a *)
(* later commit.  The handlers have no await: a request runs to its end    *)
(* before the next one starts.                                             *)

MaxRequests == 3

FillCounts == {-1, 0, 1, 2}

DbOutcomes == {"ok", "execute raises", "commit raises"}

Plus(a, b) == Counters(a.forms_filled + b.forms_filled, a.sows_sent + b.sows_sent)

\* What a SELECT on _conn reads: the row with the updates of the open
\* transaction.
Visible(stats, open) == Plus(stats, open)

\* "with _cursor() as cur: cur.execute(UPDATE ... + ?)" (lines 35-43 around
\* lines 59-63 and 69-73) adding delta.
Update(stats, open, delta, outcome) ==
  CASE outcome = "execute raises" -> [stats |-> stats, open |-> open, raised |-> TRUE]
    [] outcome = "commit raises" ->
         [stats |-> stats, open |-> Plus(open, delta), raised |-> TRUE]
    [] OTHER ->
         [stats |-> Plus(Plus(stats, open), delta), open |-> Counters(0, 0),
          raised |-> FALSE]

\* usage_db.py lines 56-63.
record_forms_filled(stats, open, delta, outcome) ==
  IF delta <= 0 THEN [stats |-> stats, open |-> open, raised |-> FALSE]
  ELSE Update(stats, open, Counters(delta, 0), outcome)

\* usage_db.py lines 66-73.
record_sows_sent(stats, open, delta, outcome) ==
  IF delta <= 0 THEN [stats |-> stats, open |-> open, raised |-> FALSE]
  ELSE Update(stats, open, Counters(0, delta), outcome)

\* usage_db.get_stats, lines 46-53: the SELECT, then the commit of _cursor,
\* which commits an open transaction too.
usage_db_get_stats(stats, open, outcome) ==
  IF outcome = "ok"
  THEN [stats |-> Plus(stats, open), open |-> Counters(0, 0), raised |-> FALSE,
        row |-> Visible(stats, open)]
  ELSE [stats |-> stats, open |-> open, raised |-> TRUE, row |-> Counters(0, 0)]

\* main.py lines 523-537.
record_fill(stats, open, count, consent, outcome) ==
  IF ~consent \/ count <= 0
  THEN [stats |-> stats, open |-> open,
        response |-> [op |-> "record_fill", ok |-> TRUE, recorded |-> 0]]
  ELSE LET r == record_forms_filled(stats, open, count, outcome)
       IN [stats |-> r.stats, open |-> r.open,
           response |-> IF r.raised
                        THEN [op |-> "record_fill", ok |-> FALSE, recorded |-> 0]
                        ELSE [op |-> "record_fill", ok |-> TRUE, recorded |-> count]]

\* main.py lines 540-553.
record_sow(stats, open, consent, outcome) ==
  IF ~consent
  THEN [stats |-> stats, open |-> open,
        response |-> [op |-> "record_sow", ok |-> TRUE, recorded |-> 0]]
  ELSE LET r == record_sows_sent(stats, open, 1, outcome)
       IN [stats |-> r.stats, open |-> r.open,
           response |-> IF r.raised
                        THEN [op |-> "record_sow", ok |-> FALSE, recorded |-> 0]
                        ELSE [op |-> "record_sow", ok |-> TRUE, recorded |-> 1]]

\* main.py lines 556-568.
get_stats(stats, open, outcome) ==
  LET r == usage_db_get_stats(stats, open, outcome)
  IN [stats |-> r.stats, open |-> r.open,
      response |-> [op |-> "get_stats", forms_filled |-> r.row.forms_filled,
                    sows_sent |-> r.row.sows_sent]]

\* The requests made: how many, the counts of the record_fill requests
\* with consent and a positive count added up, the number of record_sow
\* requests with consent, and the last request with the counters a SELECT
\* read before it.
Logged(op, count, consent) ==
  [made |-> usage_log.made + 1,
   fills |-> usage_log.fills + (IF op = "record_fill" /\ consent /\ count > 0
                                THEN count ELSE 0),
   sows |-> usage_log.sows + (IF op = "record_sow" /\ consent THEN 1 ELSE 0),
   last |-> [op |-> op, count |-> count, consent |-> consent,
             before |-> Visible(usage_stats, transaction)]]

InitU ==
  /\ IdleU
  /\ IdleV
  /\ IdleS
  /\ IdleF
  /\ IdleC

RecordFill ==
  /\ usage_log.made < MaxRequests
  /\ \E count \in FillCounts, consent \in BOOLEAN, outcome \in DbOutcomes :
       LET r == record_fill(usage_stats, transaction, count, consent, outcome)
       IN /\ usage_stats' = r.stats
          /\ transaction' = r.open
          /\ usage_response' = r.response
          /\ usage_log' = Logged("record_fill", count, consent)
  /\ UNCHANGED <<varsV, varsS, varsF, varsC>>

RecordSow ==
  /\ usage_log.made < MaxRequests
  /\ \E consent \in BOOLEAN, outcome \in DbOutcomes :
       LET r == record_sow(usage_stats, transaction, consent, outcome)
       IN /\ usage_stats' = r.stats
          /\ transaction' = r.open
          /\ usage_response' = r.response
          /\ usage_log' = Logged("record_sow", 1, consent)
  /\ UNCHANGED <<varsV, varsS, varsF, varsC>>

\* A commit with no open transaction does nothing and cannot raise.
GetStats ==
  /\ usage_log.made < MaxRequests
  /\ \E outcome \in DbOutcomes :
       /\ outcome = "commit raises" => transaction # Counters(0, 0)
       /\ LET r == get_stats(usage_stats, transaction, outcome)
          IN /\ usage_stats' = r.stats
             /\ transaction' = r.open
             /\ usage_response' = r.response
             /\ usage_log' = Logged("get_stats", 0, FALSE)
  /\ UNCHANGED <<varsV, varsS, varsF, varsC>>

NextU == RecordFill \/ RecordSow \/ GetStats

SpecUsage == InitU /\ [][NextU]_vars

-----------------------------------------------------------------------------
(* validate_mapping invoked by several callers at once.  An invocation is  *)
(* a frame: its arguments (the descriptor, by its position in the shared   *)
(* list, and the value), its locals semantic_type and value (local_value:  *)
(* line 155 rebinds the name, the caller's str is another object), the     *)
(* statement it is at, and what it returned.  The callers take their steps *)
(* in any order; a step is one statement group of lines 148-186, reading   *)
(* the module-level tables as they are at that moment.                     *)

MaxCallers == 2

Callers == 1..MaxCallers

\* The descriptors the callers share: an email field, a name field, a
\* LinkedIn field and a field without semanticType.
CallDescriptors ==
  <<Field(JStr("email"), JAbsent, JAbsent),
    Field(JStr("contactName"), JAbsent, JAbsent),
    Field(JStr("linkedinUrl"), JAbsent, JAbsent),
    Field(JAbsent, JAbsent, JAbsent)>>

\* The values the callers pass: blank, too short for a name, padded, an
\* email address, a company.
CallValues == {<<" ">>, <<"a">>, <<" ">> \o Jane \o <<" ">>, JaneAtAcme, AcmeInc}

Frame(field, value) ==
  [field |-> field, value |-> value, pc |-> "start",
   semantic_type |-> JNull, local_value |-> <<>>, result |-> NoResult]

\* The key a semantic type is looked up under; a hashable value that is
\* no str is a key of no table.
TypeName(semantic_type) == IF semantic_type.t = "str" THEN semantic_type.v ELSE ""

ReturnFrom(call, result) == [call EXCEPT !.pc = "done", !.result = result]

Goto(call, label) == [call EXCEPT !.pc = label]

ErrorOrGoto(call, error_msg, label) ==
  IF error_msg # None THEN ReturnFrom(call, Return(FALSE, error_msg)) ELSE Goto(call, label)

\* The frame after its next statement group.
CallStage(rules, lengths, descs, call) ==
  LET st == TypeName(call.semantic_type) IN
  CASE call.pc = "start" ->   \* lines 148-149
         IF Len(call.value) = 0 \/ Len(Strip(call.value)) = 0
         THEN ReturnFrom(call, Return(TRUE, None))
         ELSE Goto(call, "type")
    [] call.pc = "type" ->    \* lines 151-155
         LET semantic_type == IF descs[call.field].semanticType = JAbsent THEN JNull
                              ELSE descs[call.field].semanticType
         IN IF ~Truthy(semantic_type) THEN ReturnFrom(call, Return(TRUE, None))
            ELSE [call EXCEPT !.semantic_type = semantic_type,
                              !.local_value = Strip(call.value),
                              !.pc = "rule"]
    [] call.pc = "rule" ->    \* lines 157-161
         IF ~Hashable(call.semantic_type) THEN ReturnFrom(call, Raise("TypeError"))
         ELSE ErrorOrGoto(call, RuleCheckIn(rules, st, call.local_value), "length")
    [] call.pc = "length" ->  \* lines 163-169
         ErrorOrGoto(call, LengthCheckIn(lengths, st, call.local_value), "person")
    [] call.pc = "person" ->  \* lines 171-177
         ErrorOrGoto(call, PersonCheck(st, call.local_value), "url")
    [] call.pc = "url" ->     \* lines 179-186
         LET url_error == UrlTextCheck(st, call.local_value)
         IN IF url_error # None THEN ReturnFrom(call, Return(FALSE, url_error))
            ELSE ReturnFrom(call, Return(TRUE, None))

\* A dict without one of its keys.
Popped(table, key) == [k \in DOMAIN table \ {key} |-> table[k]]

\* StepCall that takes the rule it applied out of VALIDATION_RULES, as
\* VALIDATION_RULES.pop(semantic_type) would at line 158.
StepCall_ConsumesRule(rules, lengths, descs, call) ==
  [validation_rules |-> IF call.pc = "rule" /\ Hashable(call.semantic_type)
                        THEN Popped(rules, TypeName(call.semantic_type))
                        ELSE rules,
   length_constraints |-> lengths,
   descriptors |-> descs,
   call |-> CallStage(rules, lengths, descs, call)]

\* StepCall that reads the type with field.pop('semanticType', None) at
\* line 151: the caller's descriptor loses the key.
StepCall_PopsType(rules, lengths, descs, call) ==
  [validation_rules |-> rules,
   length_constraints |-> lengths,
   descriptors |-> IF call.pc = "type"
                   THEN [descs EXCEPT ![call.field].semanticType = JAbsent]
                   ELSE descs,
   call |-> CallStage(rules, lengths, descs, call)]

\* StepCall that keeps the stripped value in the descriptor, as
\* field['value'] = value.strip() would at line 155, and reads it from
\* there in the checks.
StepCall_ScratchInField(rules, lengths, descs, call) ==
  [validation_rules |-> rules,
   length_constraints |-> lengths,
   descriptors |-> IF call.pc = "type"
                   THEN [descs EXCEPT ![call.field].value = JStr(Strip(call.value))]
                   ELSE descs,
   call |-> IF call.pc \in {"rule", "length", "person", "url"}
            THEN CallStage(rules, lengths, descs,
                           [call EXCEPT !.local_value = descs[call.field].value.v])
            ELSE CallStage(rules, lengths, descs, call)]

\* One statement group of validate_mapping for the frame call: what it
\* leaves of the tables, of the descriptors and of the frame.  The code
\* assigns to its locals only.
StepCall(rules, lengths, descs, call) ==
  [validation_rules |-> rules,
   length_constraints |-> lengths,
   descriptors |-> descs,
   call |-> CallStage(rules, lengths, descs, call)]

InitC ==
  /\ validation_rules = VALIDATION_RULES
  /\ length_constraints = LENGTH_CONSTRAINTS
  /\ descriptors = CallDescriptors
  /\ calls \in [Callers -> {Frame(f, v) : f \in 1..Len(CallDescriptors), v \in CallValues}]
  /\ IdleV
  /\ IdleS
  /\ IdleF
  /\ IdleU

ValidateMappingStep ==
  \E c \in Callers :
     /\ calls[c].pc # "done"
     /\ LET after == StepCall(validation_rules, length_constraints, descriptors, calls[c])
        IN /\ validation_rules' = after.validation_rules
           /\ length_constraints' = after.length_constraints
           /\ descriptors' = after.descriptors
           /\ calls' = [calls EXCEPT ![c] = after.call]
     /\ UNCHANGED varsV
     /\ UNCHANGED varsS
     /\ UNCHANGED varsF
     /\ UNCHANGED varsU

NextC == ValidateMappingStep

SpecConcurrent == InitC /\ [][NextC]_vars

-----------------------------------------------------------------------------
(* Properties of validate_mapping, stated on the finished call.            *)

Accepted == Return(TRUE, None)

Rejected(reason) == Return(FALSE, reason)

Done == vPc = "done"

IsType(t) == vField.semanticType = JStr(t)

\* The value as validate_mapping checks it.
Trimmed == Strip(vValue)

\* A value is "non-empty" when something is left of it after trimming;
\* the empty and the whitespace-only values are the case of C3.
NonBlank == Len(Trimmed) > 0

\* The call ran the checks: a non-blank value and a non-empty str type.
Checked == NonBlank /\ vField.semanticType.t = "str" /\ vField.semanticType.v # ""

LastWordLower(s) == LET words == Split(Lower(s)) IN words[Len(words)]

\* C1: the checks are applied in the order shape rule, length constraint,
\* person-vs-company, URL plain-text guard; a rejection carries the reason
\* of the first check in that order that fails, and the value is accepted
\* only when all four pass.  A contactName longer than 100 characters whose
\* last word is "inc" is rejected as too long, not as a company name.
C1_FirstFailingCheck ==
  (Done /\ Checked) =>
     LET st == vField.semanticType.v
         stages == <<RuleCheck(st, Trimmed), LengthCheck(st, Trimmed),
                     PersonCheck(st, Trimmed), UrlTextCheck(st, Trimmed)>>
         failing == {k \in 1..4 : stages[k] # None}
     IN /\ failing = {} => vResult = Accepted
        /\ failing # {} =>
             vResult = Rejected(stages[CHOOSE k \in failing : \A j \in failing : k <= j])
        /\ (st = "contactName" /\ Len(Trimmed) > 100
              /\ LastWordLower(Trimmed) = <<"i", "n", "c">>)
             => vResult = Rejected("too long (max 100 chars)")

C1_Witness ==
  /\ Done
  /\ IsType("contactName")
  /\ Len(Trimmed) > 100
  /\ LastWordLower(Trimmed) = <<"i", "n", "c">>
  /\ vResult = Rejected("too long (max 100 chars)")

\* C2: for every field descriptor and every value, validate_mapping ends
\* with one of the two outcomes Accepted and Rejected(reason); it never
\* raises.
C2_NeverRaises ==
  Done => /\ vResult.kind = "return"
          /\ (vResult = Accepted \/ (~vResult.is_valid /\ vResult.error_msg # None))

\* C3: an empty or whitespace-only value is accepted whatever the
\* semanticType is.
C3_BlankAccepted ==
  (Done /\ \A i \in 1..Len(vValue) : IsSpace(vValue[i])) => vResult = Accepted

C3_Witness ==
  /\ Done
  /\ vValue = <<" ", " ">>
  /\ IsType("email")
  /\ vResult = Accepted

\* A semanticType found in none of the rule tables.
InNoTable ==
  ~\E t \in DOMAIN VALIDATION_RULES \cup DOMAIN LENGTH_CONSTRAINTS \cup person_types \cup url_types :
      vField.semanticType = JStr(t)

\* C4: a field whose semanticType is absent or in none of the rule tables
\* has every non-empty value accepted.
C4_UnknownTypeAccepted ==
  (Done /\ Len(vValue) > 0 /\ InNoTable) => vResult = Accepted

\* The shape local@domain.tld: no whitespace, exactly one "@" with
\* something before it, and after it a "." that has a character on both
\* sides.
EmailShape(s) ==
  LET ats == {i \in 1..Len(s) : s[i] = "@"} IN
  /\ \A i \in 1..Len(s) : ~IsSpace(s[i])
  /\ Cardinality(ats) = 1
  /\ \A a \in ats : a > 1 /\ \E p \in (a + 1)..Len(s) : s[p] = "." /\ p > a + 1 /\ p < Len(s)

\* C6: for semanticType email a non-empty value is accepted exactly when
\* its trimmed form has the shape local@domain.tld and at most 320
\* characters; any other non-empty value is rejected with "must be a valid
\* email address".
C6_Email ==
  (Done /\ IsType("email") /\ NonBlank) =>
     /\ (EmailShape(Trimmed) /\ Len(Trimmed) <= 320) => vResult = Accepted
     /\ ~(EmailShape(Trimmed) /\ Len(Trimmed) <= 320)
          => vResult = Rejected("must be a valid email address")
     /\ vValue = <<"j", "a", "n", "e", "@", "a", "c", "m", "e", ".", "c", "o", "m">>
          => vResult = Accepted
     /\ vValue = <<"n", "o", "t", "-", "a", "n", "-", "e", "m", "a", "i", "l">>
          => vResult = Rejected("must be a valid email address")

C6_Witness ==
  /\ Done
  /\ IsType("email")
  /\ Len(Trimmed) = 320
  /\ EmailShape(Trimmed)
  /\ vResult = Accepted

\* The value without whitespace and the characters - . ( ) +
PhoneRest == SelectSeq(vValue, LAMBDA c : c \notin {" ", "\n", "\t", "-", ".", "(", ")", "+"})

\* C7: for semanticType phone a non-empty value is accepted exactly when
\* what is left after removing whitespace and - . ( ) + is 7 to 15 decimal
\* digits and nothing else; any other value is rejected with "must be a
\* valid phone number".
C7_Phone ==
  (Done /\ IsType("phone") /\ NonBlank) =>
     LET ok == /\ \A i \in 1..Len(PhoneRest) : PhoneRest[i] \in DecimalDigits
               /\ Len(PhoneRest) >= 7
               /\ Len(PhoneRest) <= 15
     IN IF ok THEN vResult = Accepted
        ELSE vResult = Rejected("must be a valid phone number")

\* C8 as stated: for website, twitterUrl and pitchDeckUrl a non-empty value
\* that fails the generic URL predicate is rejected with the one reason
\* "must be a valid URL".
C8_OneUrlReason ==
  (Done /\ NonBlank /\ (IsType("website") \/ IsType("twitterUrl") \/ IsType("pitchDeckUrl"))
     /\ ~_looks_like_url(Trimmed))
    => vResult = Rejected("must be a valid URL")

\* C8 amended: such a value is rejected, with the reason "must be a valid
\* URL" for website and pitchDeckUrl and "must be a valid Twitter/X URL"
\* for twitterUrl.
C8_UrlReasons ==
  (Done /\ NonBlank /\ ~_looks_like_url(Trimmed)) =>
     /\ (IsType("website") \/ IsType("pitchDeckUrl")) => vResult = Rejected("must be a valid URL")
     /\ IsType("twitterUrl") => vResult = Rejected("must be a valid Twitter/X URL")

C8_Witness ==
  /\ Done
  /\ IsType("twitterUrl")
  /\ NonBlank
  /\ ~_looks_like_url(Trimmed)
  /\ vResult = Rejected("must be a valid Twitter/X URL")

\* The value names one of the six video domains, in any letter case.
NamesVideoDomain ==
  \E d \in {<<"l", "o", "o", "m", ".", "c", "o", "m">>,
            <<"y", "o", "u", "t", "u", "b", "e", ".", "c", "o", "m">>,
            <<"y", "o", "u", "t", "u", ".", "b", "e">>,
            <<"v", "i", "m", "e", "o", ".", "c", "o", "m">>,
            <<"w", "i", "s", "t", "i", "a", ".", "c", "o", "m">>,
            <<"v", "i", "d", "y", "a", "r", "d", ".", "c", "o", "m">>} :
     Contains(Lower(Trimmed), d)

\* C9 as stated: for videoUrl a non-empty value that names none of the six
\* video domains and fails the generic URL predicate is rejected with the
\* reason "must be a video URL".
C9_VideoReasonShort ==
  (Done /\ IsType("videoUrl") /\ NonBlank /\ ~NamesVideoDomain /\ ~_looks_like_url(Trimmed))
    => vResult = Rejected("must be a video URL")

\* C9 amended: such a value is rejected with the reason "must be a video
\* URL (Loom, YouTube, etc.)".
C9_VideoReason ==
  (Done /\ IsType("videoUrl") /\ NonBlank /\ ~NamesVideoDomain /\ ~_looks_like_url(Trimmed))
    => vResult = Rejected("must be a video URL (Loom, YouTube, etc.)")

C9_Witness ==
  /\ Done
  /\ IsType("videoUrl")
  /\ NonBlank
  /\ ~NamesVideoDomain
  /\ ~_looks_like_url(Trimmed)
  /\ vResult = Rejected("must be a video URL (Loom, YouTube, etc.)")

C11_LinkedinAccepted ==
  (Done /\ IsType("linkedinUrl") /\ NonBlank) =>
     /\ (/\ Len(Trimmed) <= 2000
         /\ Contains(Lower(Trimmed), <<"l", "i", "n", "k", "e", "d", "i", "n">>))
          => vResult = Accepted
     /\ vValue = <<"l", "i", "n", "k", "e", "d", "i", "n", ".", "c", "o", "m", "/",
                   "i", "n", "/", "j", "o", "h", "n", "s", "m", "i", "t", "h">>
          => vResult = Accepted

\* A value of exactly 2000 characters that names linkedin and is not a URL,
\* accepted.
C11_Witness ==
  /\ Done
  /\ IsType("linkedinUrl")
  /\ Len(Trimmed) = 2000
  /\ Contains(Lower(Trimmed), <<"l", "i", "n", "k", "e", "d", "i", "n">>)
  /\ ~_looks_like_url(Trimmed)
  /\ vResult = Accepted

\* The (min, max) table of section 4.1 of the specification, stage 3.
SpecLengthTable ==
  [shortDescription |-> <<20, 500>>,
   description |-> <<50, 5000>>,
   traction |-> <<20, 2000>>,
   problemStatement |-> <<20, 2000>>,
   solutionStatement |-> <<20, 2000>>,
   whyNow |-> <<20, 1000>>,
   teamDescription |-> <<20, 3000>>,
   uniqueAdvantage |-> <<20, 1000>>,
   investorContext |-> <<50, 3000>>,
   companyName |-> <<1, 200>>,
   contactName |-> <<2, 100>>,
   firstName |-> <<1, 50>>,
   lastName |-> <<1, 50>>,
   city |-> <<1, 100>>,
   state |-> <<1, 100>>,
   country |-> <<1, 100>>,
   zip |-> <<2, 20>>]

SpecTooShort(n) == "too short (min " \o ToString(n) \o " chars)"

SpecTooLong(n) == "too long (max " \o ToString(n) \o " chars)"

\* Every reason the length stage can give under the table.
SpecLengthReasons ==
  UNION {{SpecTooShort(SpecLengthTable[t][1]), SpecTooLong(SpecLengthTable[t][2])} :
           t \in DOMAIN SpecLengthTable}

\* C12: for a type with a (min, max) pair in the table of the specification
\* a non-empty value whose trimmed length is below min is rejected with
\* "too short (min N chars)", N the type's min, and one above max with
\* "too long (max N chars)", N the type's max; a length from min to max,
\* both ends included, is not rejected for its length; no other type is
\* ever rejected for length.  shortDescription "Hi" is rejected with
\* "too short (min 20 chars)".
C12_LengthLimits ==
  (Done /\ Checked) =>
     LET st == vField.semanticType.v
         n == Len(Trimmed)
     IN /\ st \in DOMAIN SpecLengthTable =>
              LET min == SpecLengthTable[st][1]
                  max == SpecLengthTable[st][2]
              IN /\ n < min => vResult = Rejected(SpecTooShort(min))
                 /\ n > max => vResult = Rejected(SpecTooLong(max))
                 /\ (min <= n /\ n <= max) =>
                       (vResult.kind = "return" /\ vResult.error_msg \notin SpecLengthReasons)
        /\ st \notin DOMAIN SpecLengthTable =>
              (vResult.kind = "return" /\ vResult.error_msg \notin SpecLengthReasons)
        /\ (st = "shortDescription" /\ vValue = <<"H", "i">>) =>
              vResult = Rejected("too short (min 20 chars)")

\* A description of exactly 5000 characters, the maximum, accepted.
C12_Witness ==
  /\ Done
  /\ IsType("description")
  /\ Len(Trimmed) = 5000
  /\ vResult = Accepted

\* The last whitespace-separated token of a trimmed, non-empty value: the
\* characters after its last whitespace character.
LastToken(s) ==
  LET start == CHOOSE i \in 1..Len(s) :
                  /\ (i = 1 \/ IsSpace(s[i - 1]))
                  /\ \A j \in i..Len(s) : ~IsSpace(s[j])
  IN SubSeq(s, start, Len(s))

SpecCompanySuffixes ==
  {<<"i", "n", "c">>, <<"l", "l", "c">>, <<"l", "t", "d">>, <<"c", "o", "r", "p">>,
   <<"c", "o">>, <<"c", "o", "m", "p", "a", "n", "y">>, <<"a", "i">>, <<"i", "o">>}

\* C13: for contactName, firstName and lastName a value that passes the
\* length check is rejected with "appears to be a company name, not a
\* person name" when its last whitespace-separated token, lower-cased, is
\* one of inc, llc, ltd, corp, co, company, ai, io, and is accepted when it
\* is not; the single tokens "Ai" (firstName) and "Co" (lastName) are
\* rejected.
C13_CompanyName ==
  (Done /\ Checked /\ vField.semanticType.v \in {"contactName", "firstName", "lastName"}) =>
     LET st == vField.semanticType.v
         n == Len(Trimmed)
         company == Lower(LastToken(Trimmed)) \in SpecCompanySuffixes
     IN /\ (SpecLengthTable[st][1] <= n /\ n <= SpecLengthTable[st][2]) =>
              vResult = IF company
                        THEN Rejected("appears to be a company name, not a person name")
                        ELSE Accepted
        /\ (st = "firstName" /\ vValue = <<"A", "i">>) =>
              vResult = Rejected("appears to be a company name, not a person name")
        /\ (st = "lastName" /\ vValue = <<"C", "o">>) =>
              vResult = Rejected("appears to be a company name, not a person name")

\* A last name that is the single token "Co", rejected as a company name.
C13_Witness ==
  /\ Done
  /\ IsType("lastName")
  /\ vValue = <<"C", "o">>
  /\ vResult = Rejected("appears to be a company name, not a person name")

\* The value passes the shape rule of its own URL type, the rule written
\* out from the table of the specification.
PassesOwnShape ==
  LET low == Lower(Trimmed) IN
  CASE IsType("linkedinUrl") ->
         /\ Len(Trimmed) <= 2000
         /\ \/ Contains(low, <<"l", "i", "n", "k", "e", "d", "i", "n">>)
            \/ StartsWith(low, <<"h", "t", "t", "p">>)
            \/ (\E i \in 1..Len(low) : low[i] = "/" /\ \E j \in 1..Len(low) : low[j] = ".")
    [] IsType("videoUrl") -> NamesVideoDomain \/ _looks_like_url(Trimmed)
    [] OTHER -> _looks_like_url(Trimmed)

\* C14: for website, linkedinUrl, twitterUrl, videoUrl and pitchDeckUrl a
\* non-empty value that fails the generic URL predicate and does not
\* contain "linkedin" (letter case aside) is never accepted, and when it
\* passes the shape rule of its own type the reason is "must be a URL, not
\* plain text"; so for the videoUrl "see youtube.com now" and for the
\* linkedinUrl "http is".
C14_PlainTextGuard ==
  (/\ Done /\ Checked
   /\ vField.semanticType.v \in {"website", "linkedinUrl", "twitterUrl", "videoUrl", "pitchDeckUrl"}
   /\ ~_looks_like_url(Trimmed)
   /\ ~Contains(Lower(Trimmed), <<"l", "i", "n", "k", "e", "d", "i", "n">>)) =>
     /\ vResult.kind = "return"
     /\ ~vResult.is_valid
     /\ PassesOwnShape => vResult = Rejected("must be a URL, not plain text")
     /\ (IsType("videoUrl") /\ vValue = <<"s", "e", "e", " ", "y", "o", "u", "t", "u", "b", "e",
                                          ".", "c", "o", "m", " ", "n", "o", "w">>)
          => vResult = Rejected("must be a URL, not plain text")
     /\ (IsType("linkedinUrl") /\ vValue = <<"h", "t", "t", "p", " ", "i", "s">>)
          => vResult = Rejected("must be a URL, not plain text")

\* A video URL value that names a video domain inside a sentence, sent
\* back by the plain-text guard.
C14_Witness ==
  /\ Done
  /\ IsType("videoUrl")
  /\ NamesVideoDomain
  /\ \E i \in 1..Len(Trimmed) : Trimmed[i] = " "
  /\ ~_looks_like_url(Trimmed)
  /\ vResult = Rejected("must be a URL, not plain text")

\* C24: a non-empty value that validate_mapping accepts for website,
\* linkedinUrl, twitterUrl, videoUrl or pitchDeckUrl has a trimmed length
\* of at most 2000.
C24_UrlLengthBound ==
  (/\ Done /\ Checked
   /\ vField.semanticType.v \in {"website", "linkedinUrl", "twitterUrl", "videoUrl", "pitchDeckUrl"}
   /\ vResult = Accepted) => Len(Trimmed) <= 2000

\* C25: for website, twitterUrl and pitchDeckUrl the plain-text guard
\* never fires.  The reason "must be a URL, not plain text" is never
\* returned for them; a value that fails the generic URL predicate is
\* rejected, with another reason; and an accepted value passes the generic
\* URL predicate, whether or not it contains "linkedin".
C25_GuardNeverFires ==
  (Done /\ Checked /\ vField.semanticType.v \in {"website", "twitterUrl", "pitchDeckUrl"}) =>
     /\ vResult.kind = "return"
     /\ vResult.error_msg # "must be a URL, not plain text"
     /\ vResult.is_valid <=> _looks_like_url(Trimmed)

\* A website value that contains "linkedin" and is no URL, rejected by the
\* shape rule of its type.
C25_Witness ==
  /\ Done
  /\ IsType("website")
  /\ Contains(Lower(Trimmed), <<"l", "i", "n", "k", "e", "d", "i", "n">>)
  /\ ~_looks_like_url(Trimmed)
  /\ vResult = Rejected("must be a valid URL")

\* Whitespace put before and after a value.
Paddings == {<<>>, <<" ">>, <<"\n">>, <<"\t", " ">>}

\* C26: the outcome depends on the descriptor's semanticType and on the
\* trimmed value alone.  Every descriptor with the same semanticType,
\* whatever its label and its current value, gives the same outcome for
\* the value, and the value gives the same outcome with whitespace put
\* before and after it.
C26_OnlyTypeAndTrimmedValue ==
  Done =>
     /\ \A other \in AttributeFields :
           other.semanticType = vField.semanticType
              => validate_mapping(other, vValue) = vResult
     /\ \A before, after \in Paddings :
           validate_mapping(vField, before \o vValue \o after) = vResult

\* A descriptor with a label and a current value, and a value rejected for
\* its type.
C26_Witness ==
  /\ Done
  /\ vField = Field(JStr("email"), JStr(<<"E", "m", "a", "i", "l">>), JStr(Jane))
  /\ vValue = <<"n", "o", "t", "-", "a", "n", "-", "e", "m", "a", "i", "l">>
  /\ vResult = Rejected("must be a valid email address")

-----------------------------------------------------------------------------
(* Properties of suggest_mappings, stated on the finished request.         *)

\* C5: every mapping of a returned list has an index that is a position of
\* the request's field list, a value that is trimmed and not empty, and a
\* value that validate_mapping accepts for the field at that position.
C5_OnlyAcceptedReturned ==
  (pc = "done" /\ response.status = 200) =>
     \A k \in 1..Len(response.mappings) :
        LET m == response.mappings[k] IN
        /\ m.index \in 0..(Len(body.fields) - 1)
        /\ Len(m.value) > 0
        /\ Strip(m.value) = m.value
        /\ validate_mapping(body.fields[m.index + 1], m.value) = Return(TRUE, None)

\* A request where one candidate was kept and another, rejected, was not.
C5_Witness ==
  /\ pc = "done"
  /\ response.status = 200
  /\ Len(response.mappings) = 1
  /\ Len(llm.value.v) = 2
  /\ \E k \in 1..2 :
        /\ llm.value.v[k].t = "dict"
        /\ llm.value.v[k].v.index = JInt(0)
        /\ llm.value.v[k].v.value = JStr(AcmeInc)
        /\ body.fields[1].semanticType = JStr("email")

\* The request reached the loop over the LLM's array: a key is configured
\* and the reply parsed as a JSON array.
Looped ==
  /\ pc = "done"
  /\ Len(Strip(api_key)) > 0
  /\ llm.kind = "json"
  /\ llm.value.t = "list"

\* The element m of the array is handed to validate_mapping: it is an
\* object with an index that int() converts to a position of the field
\* list, where a non-empty descriptor stands, and its value is not blank.
CandidateValidated(m) ==
  /\ m.t = "dict"
  /\ m.v.index # JAbsent
  /\ PyInt(m.v.index).ok
  /\ Len(Strip(PyStr(m.v.value))) > 0
  /\ PyInt(m.v.index).v \in 0..(Len(body.fields) - 1)
  /\ NonEmptyDict(body.fields[PyInt(m.v.index).v + 1])

CandidateResult(m) ==
  validate_mapping(body.fields[PyInt(m.v.index).v + 1], Strip(PyStr(m.v.value)))

CandidateRejected(m) ==
  /\ CandidateValidated(m)
  /\ CandidateResult(m).kind = "return"
  /\ ~CandidateResult(m).is_valid

CandidateAccepted(m) == CandidateValidated(m) /\ CandidateResult(m) = Return(TRUE, None)

\* The element makes the loop raise: int() of its index does, or
\* validate_mapping does.
CandidateRaises(m) ==
  /\ m.t = "dict"
  /\ m.v.index # JAbsent
  /\ \/ ~PyInt(m.v.index).ok
     \/ (CandidateValidated(m) /\ CandidateResult(m).kind = "raise")

MappingOf(m) == [index |-> PyInt(m.v.index).v, value |-> Strip(PyStr(m.v.value))]

ReplyOf(candidates) == [kind |-> "json", value |-> JList(candidates)]

Rearrangements(seq) ==
  LET n == Len(seq)
      bijections == {p \in [1..n -> 1..n] : \A i, j \in 1..n : p[i] = p[j] => i = j}
  IN {[i \in 1..n |-> seq[p[i]]] : p \in bijections}

Range(seq) == {seq[k] : k \in 1..Len(seq)}

\* C18: the batch is order-independent.  Under every rearrangement of the
\* LLM's array the request has the same status and the same set of
\* mappings, and a candidate's outcome does not depend on its place: the
\* mappings kept are those of the candidates validate_mapping accepts.
C18_OrderIndependent ==
  Looped =>
     LET cands == llm.value.v
         accepted == {k \in 1..Len(cands) : CandidateAccepted(cands[k])}
     IN /\ response.status = 200 =>
              Range(response.mappings) = {MappingOf(cands[k]) : k \in accepted}
        /\ \A perm \in Rearrangements(cands) :
              LET other == suggest_mappings(api_key, body, ReplyOf(perm)) IN
              /\ other.status = response.status
              /\ Range(other.mappings) = Range(response.mappings)

\* Two different values accepted for the same field, both kept, in the
\* order of the array.
C18_Witness ==
  /\ Looped
  /\ Len(llm.value.v) = 2
  /\ CandidateAccepted(llm.value.v[1])
  /\ CandidateAccepted(llm.value.v[2])
  /\ MappingOf(llm.value.v[1]).index = MappingOf(llm.value.v[2]).index
  /\ MappingOf(llm.value.v[1]).value # MappingOf(llm.value.v[2]).value
  /\ response = Response(200, <<MappingOf(llm.value.v[1]), MappingOf(llm.value.v[2])>>)

\* The element m of the array is malformed: no object, an object without
\* index, an index int() does not convert, or an index that is no
\* position of the field list.
Malformed(m) ==
  \/ m.t # "dict"
  \/ m.v.index = JAbsent
  \/ ~PyInt(m.v.index).ok
  \/ PyInt(m.v.index).v \notin 0..(Len(body.fields) - 1)

WellFormed(m) == ~Malformed(m)

\* C20: a malformed candidate never makes the request fail; it is skipped,
\* and the response is the one the same request gets when the malformed
\* candidates are taken out of the LLM's array.
C20_MalformedSkipped ==
  Looped =>
     /\ response = suggest_mappings(api_key, body, ReplyOf(SelectSeq(llm.value.v, WellFormed)))
     /\ (\A k \in 1..Len(llm.value.v) : Malformed(llm.value.v[k])) => response = Response(200, <<>>)

\* C21: suggest_mappings is complete with respect to the validator.  In a
\* returned list stands every candidate whose index is a position of the
\* request's field list, whose trimmed value is not empty and whose value
\* validate_mapping accepts for the descriptor at that position, a
\* descriptor without any attribute included.
C21_Complete ==
  (Looped /\ response.status = 200) =>
     \A k \in 1..Len(llm.value.v) :
        LET m == llm.value.v[k] IN
        (/\ m.t = "dict"
         /\ m.v.index # JAbsent
         /\ PyInt(m.v.index).ok
         /\ PyInt(m.v.index).v \in 0..(Len(body.fields) - 1)
         /\ Len(Strip(PyStr(m.v.value))) > 0
         /\ CandidateResult(m) = Return(TRUE, None))
           => MappingOf(m) \in Range(response.mappings)

\* C22: a returned list holds at most one mapping per field index.
C22_OnePerIndex ==
  (pc = "done" /\ response.status = 200) =>
     \A i, j \in 1..Len(response.mappings) :
        response.mappings[i].index = response.mappings[j].index => i = j

\* C23: a returned list holds no mapping for a field whose descriptor
\* carries a current value that is not empty.
C23_NoPrefilled ==
  (pc = "done" /\ response.status = 200) =>
     \A k \in 1..Len(response.mappings) :
        LET field == body.fields[response.mappings[k].index + 1] IN
        ~(field.value.t = "str" /\ Len(Strip(field.value.v)) > 0)

\* C28: when the LLM's reply is no JSON, or is JSON that is no array, the
\* response is successful with an empty list; when the call to the LLM
\* fails, or a candidate makes the processing of the array raise, the
\* request ends in HTTP 502; and a successful response never holds part
\* of the filtered list: it holds the mapping of every accepted candidate
\* of the array, and no candidate of the array raised.
C28_FailureResponses ==
  (pc = "done" /\ Len(Strip(api_key)) > 0) =>
     /\ llm.kind = "invalid" => response = Response(200, <<>>)
     /\ (llm.kind = "json" /\ llm.value.t # "list") => response = Response(200, <<>>)
     /\ llm.kind = "error" => response = Response(502, <<>>)
     /\ response.status \in {200, 502}
     /\ response.status = 502 => response.mappings = <<>>
     /\ (llm.kind = "json" /\ llm.value.t = "list") =>
          LET cands == llm.value.v
              raises == \E k \in 1..Len(cands) : CandidateRaises(cands[k])
          IN /\ raises => response = Response(502, <<>>)
             /\ ~raises =>
                  /\ response.status = 200
                  /\ \A k \in 1..Len(cands) :
                        CandidateAccepted(cands[k]) =>
                           MappingOf(cands[k]) \in Range(response.mappings)

\* The first candidate of the array is accepted and the second raises:
\* the request ends in 502 and the accepted mapping is not returned.
C28_Witness ==
  /\ Looped
  /\ Len(llm.value.v) = 2
  /\ CandidateAccepted(llm.value.v[1])
  /\ CandidateRaises(llm.value.v[2])
  /\ response = Response(502, <<>>)

-----------------------------------------------------------------------------
(* Properties of suggest_field and of the handlers without an API key.     *)

FieldAnswered == pc = "done" /\ suggestion # NoSuggestion

MappingsAnswered == pc = "done" /\ response # NoResponse

\* What validate_mapping says of a value of the LLM's JSON: a value that is
\* not truthy (null, '', 0) is accepted by "if not value" (line 147)
\* whatever the field; a truthy one is judged by its text, as line 411
\* passes it.
Verdict(field, x) ==
  IF ~ValueTruthy(x) THEN Accepted ELSE validate_mapping(field, PyStr(x))

\* C27: suggest_field never returns a non-null value that validate_mapping
\* rejects for the target field.  When the LLM's object proposes a value
\* the validator rejects, the response is value null with the validator's
\* reason as reasoning; when the validator accepts it, or it is null or
\* empty, the response carries the LLM's value and reasoning as they came
\* (null for a missing value, '' for a missing reasoning).
C27_FieldSafety ==
  FieldAnswered =>
    /\ suggestion.value # JNull =>
         LET r == Verdict(target, suggestion.value)
         IN ~(r.kind = "return" /\ ~r.is_valid)
    /\ (Len(Strip(api_key)) > 0 /\ llm.kind = "json" /\ llm.value.t = "dict") =>
         LET value == DictGet(llm.value.v.value, JNull)
             reasoning == DictGet(llm.value.v.reasoning, JStr(""))
             result == validate_mapping(target, PyStr(value))
         IN /\ (ValueTruthy(value) /\ result.kind = "return" /\ ~result.is_valid)
                 => suggestion = Suggestion(JNull, JStr(result.error_msg))
            /\ (~ValueTruthy(value) \/ result = Accepted)
                 => suggestion = Suggestion(value, reasoning)

\* A company name proposed for an email field comes back as null with the
\* validator's reason.
C27_Witness ==
  /\ FieldAnswered
  /\ target = Field(JStr("email"), JAbsent, JAbsent)
  /\ llm = [kind |-> "json", value |-> JDict([value |-> JStr(AcmeInc), reasoning |-> JStr("why")])]
  /\ suggestion = Suggestion(JNull, JStr("must be a valid email address"))

\* C29: with ANTHROPIC_API_KEY unset, empty or blank, suggest_mappings
\* answers 200 with no mapping, having called neither the LLM nor
\* validate_mapping, and suggest_field answers value null with reasoning
\* 'API key not configured'.
C29_BlankKey ==
  (pc = "done" /\ Len(Strip(api_key)) = 0) =>
    /\ effects = NoEffects
    /\ MappingsAnswered \/ FieldAnswered
    /\ MappingsAnswered => response = Response(HTTP_OK, <<>>)
    /\ FieldAnswered => suggestion = Suggestion(JNull, JStr("API key not configured"))

\* A request with two fields under a key of one space.
C29_Witness ==
  /\ MappingsAnswered
  /\ api_key = <<" ">>
  /\ Len(body.fields) = 2
  /\ response = Response(HTTP_OK, <<>>)
  /\ effects = NoEffects

-----------------------------------------------------------------------------
(* Properties of the usage counters.                                       *)

\* The counters as the service reads them.
Seen == Visible(usage_stats, transaction)

\* C30: after any sequence of record_fill, record_sow and get_stats
\* requests forms_filled is the sum of the counts of the record_fill
\* requests made with consent and a positive count and sows_sent the
\* number of record_sow requests made with consent; a request without
\* consent or with count <= 0 changes nothing and reports recorded 0,
\* record_fill leaves sows_sent, record_sow leaves forms_filled, get_stats
\* leaves both, no counter decreases, and 'recorded' in a response is the
\* increase that request applied.
C30_Counters ==
  LET last == usage_log.last
      before == last.before
      recording == last.op \in {"record_fill", "record_sow"}
  IN /\ Seen.forms_filled = usage_log.fills
     /\ Seen.sows_sent = usage_log.sows
     /\ (recording /\ (~last.consent \/ last.count <= 0))
          => (Seen = before /\ usage_response.recorded = 0)
     /\ last.op = "record_fill" => Seen.sows_sent = before.sows_sent
     /\ last.op = "record_sow" => Seen.forms_filled = before.forms_filled
     /\ last.op = "get_stats" => Seen = before
     /\ Seen.forms_filled >= before.forms_filled
     /\ Seen.sows_sent >= before.sows_sent
     /\ last.op = "record_fill"
          => usage_response.recorded = Seen.forms_filled - before.forms_filled
     /\ last.op = "record_sow"
          => usage_response.recorded = Seen.sows_sent - before.sows_sent

-----------------------------------------------------------------------------
(* Properties of validate_mapping under several invocations.               *)

Returned(c) == calls[c].pc = "done"

\* C16: validate_mapping is deterministic.  Two invocations with the same
\* descriptor and the same value, wherever they stand among the other
\* invocations (one after the other or overlapping), return the same
\* decision and the same reason.
C16_Deterministic ==
  \A c1, c2 \in DOMAIN calls :
     (/\ Returned(c1) /\ Returned(c2)
      /\ calls[c1].field = calls[c2].field
      /\ calls[c1].value = calls[c2].value) => calls[c1].result = calls[c2].result

\* Two invocations with one input have returned, both with the same
\* rejection.
C16_Witness ==
  /\ calls # <<>>
  /\ Returned(1) /\ Returned(2)
  /\ calls[1].field = calls[2].field
  /\ calls[1].value = calls[2].value
  /\ calls[1].result = Rejected("must be a valid email address")
  /\ calls[2].result = calls[1].result

\* C17: validate_mapping has no side effects.  No step of an invocation,
\* one that ends in an acceptance or in a rejection included, changes a
\* field descriptor, a caller's value, VALIDATION_RULES or
\* LENGTH_CONSTRAINTS.
C17_NoSideEffects ==
  [][/\ validation_rules' = validation_rules
     /\ length_constraints' = length_constraints
     /\ descriptors' = descriptors
     /\ \A c \in DOMAIN calls :
           /\ calls'[c].field = calls[c].field
           /\ calls'[c].value = calls[c].value]_vars

\* One invocation has rejected and another has accepted, and the tables
\* and the descriptors are what they were.
C17_Witness ==
  /\ calls # <<>>
  /\ \E c1, c2 \in DOMAIN calls :
        /\ Returned(c1) /\ Returned(c2)
        /\ ~calls[c1].result.is_valid
        /\ calls[c2].result = Accepted
        /\ Len(Strip(calls[c2].value)) > 0
        /\ descriptors[calls[c2].field].semanticType # JAbsent
  /\ validation_rules = VALIDATION_RULES
  /\ length_constraints = LENGTH_CONSTRAINTS
  /\ descriptors = CallDescriptors

\* C19: under every interleaving of concurrent invocations each one
\* returns what validate_mapping returns for its arguments when it runs
\* alone.
C19_ConcurrentSafe ==
  \A c \in DOMAIN calls :
     Returned(c) =>
        calls[c].result = validate_mapping(CallDescriptors[calls[c].field], calls[c].value)

\* An invocation has returned a rejection while another one, on the same
\* descriptor with another value, is between its statements.
C19_Witness ==
  /\ calls # <<>>
  /\ \E c1, c2 \in DOMAIN calls :
        /\ Returned(c1)
        /\ ~calls[c1].result.is_valid
        /\ calls[c2].pc \in {"rule", "length", "person", "url"}
        /\ calls[c2].field = calls[c1].field
        /\ calls[c2].value # calls[c1].value

====
